---- MODULE Spec2Model ----
(***************************************************************************)
(* Model of database-iteration/main.go: the /list, /insert and /clear      *)
(* handlers over the system-versioned table `users`                        *)
(* (migrations/00002_users.sql), and the NextPageToken / SyncToken codec.  *)
(*                                                                         *)
(* Time is counted in ticks, TicksPerSec ticks to the second, so that the  *)
(* sub-second part of time.Now() and of the table's row_start is visible   *)
(* next to everything the code keeps at whole seconds (Unix(), the         *)
(* time.DateTime layout, the `timestamp` columns).                         *)
(***************************************************************************)
EXTENDS Integers, Sequences, FiniteSets, TLC

\* ---------------------------------------------------------------- bounds
TicksPerSec == 2
StartSec == 200000
MaxRows == 2
MaxSteps == 4
ZoneShift == 3600

\* ------------------------------------------------------ program constants
RetentionSeconds == 86400
DefaultMaxResults == 10

Forever == 2000000000
Names == {1, 2}
Zones == {0, ZoneShift}
MaxResultsInputs == {-1, 0, 1, 2}
PageSizes == {1, 2}

VARIABLES now, zone, table, resp, sc, sy, steps
vars == <<now, zone, table, resp, sc, sy, steps>>

\* ------------------------------------------------------------- time.Time
\* A time.Time is an instant (tick) and a location; the zero Time is year 1.
ZeroTime == [zero |-> TRUE, tick |-> 0, loc |-> "UTC"]
TimeNow(t) == [zero |-> FALSE, tick |-> t, loc |-> "Local"]
UTC(x) == [x EXCEPT !.loc = "UTC"]
IsZero(x) == x.zero
Unix(x) == x.tick \div TicksPerSec
TimeUnix(sec) == [zero |-> FALSE, tick |-> sec * TicksPerSec, loc |-> "Local"]
\* The Local zone of the process: UTC (z = 0), or a zone that is z seconds
\* ahead of UTC in summer time and goes back to UTC at DstAt, as
\* Europe/London does on the last Sunday of October.
DstAt == StartSec + RetentionSeconds \div 2
LocalOffset(z, sec) == IF sec < DstAt THEN z ELSE 0
\* The wall-clock second of x in its own location.
Wall(x, z) == Unix(x) + (IF x.loc = "Local" THEN LocalOffset(z, Unix(x)) ELSE 0)
\* AddDate(0, 0, 1): Date(year, month, day+1, hour, min, sec, nsec, loc),
\* the same wall-clock time on the next calendar day in x's location; Date
\* takes the offset in force at that wall-clock time.
AddDate(x, z) ==
    LET wall == Wall(x, z) + RetentionSeconds
        sec == IF x.loc = "Local" THEN wall - LocalOffset(z, wall) ELSE wall
    IN [x EXCEPT !.tick = sec * TicksPerSec + (x.tick % TicksPerSec)]
Before(a, b) == a.tick < b.tick
\* Format(time.DateTime): the wall-clock second in the Time's own location,
\* without a zone; z is the Local zone of the process.
Format(x, z) == Wall(x, z)

\* ------------------------------------------------------------------ wire
\* The text of a token: q = wrapped in double quotes; enc = whether the
\* text is base64 of a JSON object of the right shape; has = the keys of
\* that object.
Keys == {"t", "o", "u", "v"}
NoParam == [q |-> FALSE, enc |-> "empty", has |-> {}, t |-> 0, o |-> 0, u |-> 0, v |-> 0]
NullWire == [q |-> FALSE, enc |-> "null", has |-> {}, t |-> 0, o |-> 0, u |-> 0, v |-> 0]
BadBase64 == [q |-> FALSE, enc |-> "badb64", has |-> {}, t |-> 0, o |-> 0, u |-> 0, v |-> 0]
BadJSON == [q |-> FALSE, enc |-> "badjson", has |-> {}, t |-> 0, o |-> 0, u |-> 0, v |-> 0]

NilNextPageToken == [nil |-> TRUE, Timestamp |-> ZeroTime, UpdatedAfter |-> ZeroTime, Offset |-> 0, ValidUntil |-> ZeroTime]
NilSyncToken == [nil |-> TRUE, Timestamp |-> ZeroTime, ValidUntil |-> ZeroTime]

NextPageToken_MarshalJSON(t) ==
    IF t.nil THEN NullWire
    ELSE [q |-> TRUE, enc |-> "ok",
          has |-> IF IsZero(t.UpdatedAfter) THEN {"t", "o", "v"} ELSE Keys,
          t |-> Unix(t.Timestamp), o |-> t.Offset,
          u |-> IF IsZero(t.UpdatedAfter) THEN 0 ELSE Unix(t.UpdatedAfter),
          v |-> Unix(t.ValidUntil)]

SyncToken_MarshalJSON(t) ==
    IF t.nil THEN NullWire
    ELSE [q |-> TRUE, enc |-> "ok", has |-> {"t", "v"},
          t |-> Unix(t.Timestamp), o |-> 0, u |-> 0, v |-> Unix(t.ValidUntil)]

Base64DecodeQuoted(data) == data.enc \in {"ok", "badjson"}
\* base64.StdEncoding.Decode: a double quote is not in the alphabet.
Base64Decode(data) == ~data.q /\ data.enc \in {"ok", "badjson"}
\* json.Unmarshal into the struct: a key that is absent leaves the zero value.
JsonUnmarshal(data) == data.enc = "ok"
Field(data, k) == IF k \in data.has THEN data[k] ELSE 0

NextPageToken_UnmarshalJSON(data) ==
    IF ~Base64Decode(data) \/ ~JsonUnmarshal(data)
    THEN [err |-> TRUE, tok |-> NilNextPageToken]
    ELSE [err |-> FALSE,
          tok |-> [nil |-> FALSE,
                   Timestamp |-> TimeUnix(Field(data, "t")),
                   UpdatedAfter |-> IF "u" \in data.has THEN TimeUnix(data.u) ELSE ZeroTime,
                   Offset |-> Field(data, "o"),
                   ValidUntil |-> TimeUnix(Field(data, "v"))]]

SyncToken_UnmarshalJSON(data) ==
    IF ~Base64Decode(data) \/ ~JsonUnmarshal(data)
    THEN [err |-> TRUE, tok |-> NilSyncToken]
    ELSE [err |-> FALSE,
          tok |-> [nil |-> FALSE,
                   Timestamp |-> TimeUnix(Field(data, "t")),
                   ValidUntil |-> TimeUnix(Field(data, "v"))]]

\* ------------------------------------------------------ the users table
\* A row version of the system-versioned table: the columns of `users`
\* (email, which no query reads, is left out) and the versioning period
\* [row_start, row_end), kept at sub-second precision by the engine.
\* created_at and updated_at are `timestamp` columns: whole seconds.
CurrentTimestamp(t) == t \div TicksPerSec

\* FOR SYSTEM_TIME AS OF TIMESTAMP wall: the session zone is UTC, the zone
\* line 92 formats the first request's instant in.
AsOf(tbl, wall) ==
    {v \in tbl : v.row_start <= wall * TicksPerSec /\ wall * TicksPerSec < v.row_end}

\* WHERE updated_at > ?  (only when onlyNewerThan is not the zero Time)
NewerThan(v, onlyNewerThan) == v.updated_at * TicksPerSec > onlyNewerThan.tick

Selected(tbl, wall, onlyNewerThan) ==
    {v \in AsOf(tbl, wall) : IsZero(onlyNewerThan) \/ NewerThan(v, onlyNewerThan)}

\* ORDER BY name: every arrangement of the rows in which names do not
\* decrease; rows of equal name come in an order the engine is free to pick.
OrderByName(S) ==
    {s \in [1..Cardinality(S) -> S] :
        \A i, j \in 1..Cardinality(S) : i < j => (s[i] # s[j] /\ s[i].name <= s[j].name)}

Min(a, b) == IF a < b THEN a ELSE b

\* LIMIT limit OFFSET offset
LimitOffset(s, limit, offset) ==
    [i \in 1..(Min(Len(s), offset + limit) - Min(Len(s), offset)) |-> s[offset + i]]

\* rows.Scan into User
User(v) == [id |-> v.id, name |-> v.name, created_at |-> v.created_at, updated_at |-> v.updated_at]

ScanUsers(page) == [i \in 1..Len(page) |-> User(page[i])]

\* The result sets db.Query can hand back for one statement.
Query(tbl, wall, onlyNewerThan, maxResults, offset) ==
    {ScanUsers(LimitOffset(s, maxResults, offset)) : s \in OrderByName(Selected(tbl, wall, onlyNewerThan))}

\* The statement fails: a negative LIMIT or OFFSET.
QueryFails(maxResults, offset) == maxResults < 0 \/ offset < 0

\* ----------------------------------------------------------- listHandler
Absent == [given |-> FALSE, n |-> 0]
Given(n) == [given |-> TRUE, n |-> n]

MaxResultsOf(req) == IF req.max_results.given THEN req.max_results.n ELSE DefaultMaxResults

NeverExpired(validUntil, tnow) == FALSE
Expired(validUntil, tnow) == Before(validUntil, tnow)

ClearSyncToken(tok) == NilSyncToken
KeepNextPageToken(tok) == tok
ClearNextPageToken(tok) == NilNextPageToken

EmitSync(n, maxResults) == n = 0 \/ n < maxResults
PageLengthOnly(offset, n) == n
NextOffset(offset, n) == offset + n

ErrorResponse(status, msg) ==
    [status |-> status, msg |-> msg, users |-> << >>,
     npt |-> NilNextPageToken, st |-> NilSyncToken,
     next_page_token |-> NullWire, sync_token |-> NullWire,
     read |-> FALSE, asof |-> 0]

SyncTimestampFromFilter(tableInPointOfTime, onlyNewerThan) == onlyNewerThan
\* Line 183: the sync token's Timestamp is the point in time that was read.
SyncTimestamp(tableInPointOfTime, onlyNewerThan) == tableInPointOfTime

\* Lines 166-201: the page is read, the continuation chosen, the body encoded.
OkResponse(users, tableInPointOfTime, onlyNewerThan, offset, maxResults, tnow, z, syncToken, nextPageToken, wall) ==
    LET st == IF EmitSync(Len(users), maxResults)
              THEN [nil |-> FALSE,
                    Timestamp |-> SyncTimestamp(tableInPointOfTime, onlyNewerThan),
                    ValidUntil |-> AddDate(tnow, z)]
              ELSE syncToken
        npt == IF EmitSync(Len(users), maxResults)
               THEN nextPageToken
               ELSE [nil |-> FALSE, Timestamp |-> tableInPointOfTime,
                     UpdatedAfter |-> onlyNewerThan,
                     Offset |-> NextOffset(offset, Len(users)),
                     ValidUntil |-> AddDate(tnow, z)]
    IN [status |-> 200, msg |-> "", users |-> users, npt |-> npt, st |-> st,
        next_page_token |-> NextPageToken_MarshalJSON(npt),
        sync_token |-> SyncToken_MarshalJSON(st),
        read |-> TRUE, asof |-> wall]

\* Lines 159-163: the statement failed.
QueryError(wall) == [ErrorResponse(500, "query") EXCEPT !.read = TRUE, !.asof = wall]

\* A point in time at or before 1970-01-01 00:00:00 is outside the range of
\* TIMESTAMP: the engine may refuse the statement or find no row.
QueryMayFail(wall) == wall <= 0

\* Lines 134-180: max_results, the statement, the scan.
RunQuery(req, tbl, z, tableInPointOfTime, onlyNewerThan, offset, tnow, syncToken, nextPageToken) ==
    LET maxResults == MaxResultsOf(req)
        wall == Format(tableInPointOfTime, z)
    IN IF QueryFails(maxResults, offset)
       THEN {QueryError(wall)}
       ELSE (IF QueryMayFail(wall) THEN {QueryError(wall)} ELSE {}) \cup
            {OkResponse(users, tableInPointOfTime, onlyNewerThan, offset, maxResults,
                        tnow, z, syncToken, nextPageToken, wall) :
                users \in Query(tbl, wall, onlyNewerThan, maxResults, offset)}

SyncTokenGivenAlone(req) == req.sync_token # NoParam /\ req.next_page_token = NoParam
\* Line 99: the sync_token parameter is looked at first; next_page_token
\* only in its else branch.
SyncTokenGiven(req) == req.sync_token # NoParam

\* The responses the handler can give to req at tick t, with the Local zone
\* at offset z, over the table tbl.
listHandler(req, t, z, tbl) ==
    LET tnow == TimeNow(t)
        sdec == SyncToken_UnmarshalJSON(req.sync_token)
        ndec == NextPageToken_UnmarshalJSON(req.next_page_token)
    IN IF SyncTokenGiven(req)
       THEN IF sdec.err THEN {ErrorResponse(400, "decode")}
            ELSE IF Expired(sdec.tok.ValidUntil, tnow) THEN {ErrorResponse(400, "expired")}
            ELSE RunQuery(req, tbl, z, UTC(tnow), sdec.tok.Timestamp, 0, tnow,
                          ClearSyncToken(sdec.tok), ClearNextPageToken(NilNextPageToken))
       ELSE IF req.next_page_token # NoParam
       THEN IF ndec.err THEN {ErrorResponse(400, "decode")}
            ELSE IF Expired(ndec.tok.ValidUntil, tnow) THEN {ErrorResponse(400, "expired")}
            ELSE RunQuery(req, tbl, z, ndec.tok.Timestamp, ndec.tok.UpdatedAfter,
                          ndec.tok.Offset, tnow,
                          ClearSyncToken(NilSyncToken), ClearNextPageToken(ndec.tok))
       ELSE RunQuery(req, tbl, z, UTC(tnow), ZeroTime, 0, tnow, NilSyncToken, NilNextPageToken)

\* ---------------------------------------------------------------- state
\* now     the clock, in ticks
\* zone    the server process's Local zone: its offset (seconds) from UTC
\*         when the server starts
\* table   the row versions of `users`, history included
\* resp    the /list exchange that has just completed (the request, its
\*         instant, the response), until the next write or clock step
\* sc      the caller's pass in progress: how it began (its max_results, its
\*         instant t0, the timestamp `after` of the sync token it began
\*         from), the pages so far, the next-page token to present next,
\*         and (told) the last request made with a next-page token and
\*         what it was told
\* sy      the caller's sync token and what was written since it was issued
\* steps   how many writes, clock steps and followed list requests have happened
NoPass == [kind |-> "none", m |-> Absent, t0 |-> 0, after |-> 0, start |-> {}, lens |-> << >>, writes |-> {}]

NoSync == [tok |-> NullWire, n |-> 0, kinds |-> {}, ids |-> {}, from |-> NoPass]

NoRequest == [sync_token |-> NoParam, next_page_token |-> NoParam, max_results |-> Absent]

\* No next-page token has been presented yet.
NoTold == [req |-> NoRequest, out |-> ErrorResponse(0, "")]

\* No exchange has just completed.
NoExchange ==
    [role |-> "none", at |-> 0, req |-> NoRequest, sy0 |-> NoSync, out |-> ErrorResponse(0, "")]

\* The table the server finds when it starts: up to MaxRows rows, inserted
\* well before, each at an instant of its own inside a second.
SeedSec == StartSec - 2 * ZoneShift
SeedRow(id) ==
    [id |-> id, name |-> IF id = 1 THEN 1 ELSE 2,
     created_at |-> SeedSec, updated_at |-> SeedSec,
     row_start |-> SeedSec * TicksPerSec + 1, row_end |-> Forever]
SeedTables == {{SeedRow(id) : id \in 1..k} : k \in 0..MaxRows}

\* The server starts at an instant inside a second, as any instant is.
Init ==
    /\ now = StartSec * TicksPerSec + 1
    /\ zone \in Zones
    /\ table \in SeedTables
    /\ resp = NoExchange
    /\ sc = [phase |-> "idle", pass |-> NoPass, pages |-> << >>, next |-> NullWire,
             told |-> NoTold]
    /\ sy = NoSync
    /\ steps = 0

Current(tbl, t) == {v \in tbl : v.row_start <= t /\ t < v.row_end}
Ids(tbl) == {v.id : v \in tbl}

\* A write is seen by the caller's bookkeeping: the pass in progress and
\* the sync token held both remember what was written after them.
Wrote(kind, ids) ==
    /\ sc' = IF sc.phase = "idle" THEN sc ELSE [sc EXCEPT !.pass.writes = @ \cup {kind}]
    /\ sy' = IF sy.tok = NullWire THEN sy
             ELSE [sy EXCEPT !.n = @ + 1, !.kinds = @ \cup {kind}, !.ids = @ \cup ids]
    /\ steps' = steps + 1
    /\ resp' = NoExchange

\* insertHandler: a body that is not JSON is answered 400 and nothing is
\* written; otherwise INSERT INTO users (name, email) VALUES (?, ?).
\* Every statement runs at an instant of its own, later than all before it.
Bodies == {[ok |-> TRUE, name |-> n] : n \in Names} \cup {[ok |-> FALSE, name |-> 0]}

insertHandler(body) ==
    IF ~body.ok
    THEN UNCHANGED vars
    ELSE /\ steps < MaxSteps
         /\ Cardinality(Ids(table)) < MaxRows
         /\ now' = now + 1
         /\ table' = table \cup
               {[id |-> Cardinality(Ids(table)) + 1, name |-> body.name,
                 created_at |-> CurrentTimestamp(now'), updated_at |-> CurrentTimestamp(now'),
                 row_start |-> now', row_end |-> Forever]}
         /\ Wrote("insert", {})
         /\ UNCHANGED zone

\* An UPDATE of one row's content by a writer on the database:
\* ON UPDATE CURRENT_TIMESTAMP sets updated_at, versioning keeps the old row.
UpdateRow(id) ==
    /\ steps < MaxSteps
    /\ \E v \in Current(table, now) :
          /\ v.id = id
          /\ now' = now + 1
          /\ table' = (table \ {v}) \cup
                {[v EXCEPT !.row_end = now'],
                 [v EXCEPT !.updated_at = CurrentTimestamp(now'), !.row_start = now']}
    /\ Wrote("update", {id})
    /\ UNCHANGED zone

\* clearHandler: DELETE FROM users.
clearHandler ==
    /\ steps < MaxSteps
    /\ Current(table, now) # {}
    /\ now' = now + 1
    /\ table' = {IF v \in Current(table, now) THEN [v EXCEPT !.row_end = now'] ELSE v : v \in table}
    /\ Wrote("delete", {})
    /\ UNCHANGED zone

\* Time passes: a tick, or a tick less than the retention window.
Jumps == {1, RetentionSeconds * TicksPerSec - 1}

Advance(d) ==
    /\ steps < MaxSteps
    /\ now' = now + d
    /\ steps' = steps + 1
    /\ resp' = NoExchange
    /\ UNCHANGED <<zone, table, sc, sy>>

\* ------------------------------------------------------------ the caller
\* What a JSON client reads out of the response body: the string without
\* its quotes.
ClientString(w) == [w EXCEPT !.q = FALSE]

PageIds(users) == [i \in 1..Len(users) |-> users[i].id]

Exchange(role, req, out) ==
    resp' = [role |-> role, at |-> now, req |-> req, sy0 |-> sy, out |-> out]

\* The caller files the response: the page, and the token to go on with.
Follow(pass, pages, out, told) ==
    LET done == [pass EXCEPT !.lens = Append(@, Len(out.users))]
    IN /\ sc' = IF out.status # 200
                THEN [phase |-> "failed", pass |-> pass, pages |-> pages, next |-> NullWire,
                      told |-> told]
                ELSE [phase |-> IF out.next_page_token # NullWire THEN "open" ELSE "done",
                      pass |-> done,
                      pages |-> pages \o PageIds(out.users),
                      next |-> ClientString(out.next_page_token),
                      told |-> told]
       /\ sy' = IF out.status = 200 /\ out.sync_token # NullWire
                THEN [tok |-> ClientString(out.sync_token), n |-> 0, kinds |-> {},
                      ids |-> {}, from |-> done]
                ELSE sy

Listed ==
    /\ steps' = steps + 1
    /\ UNCHANGED <<now, zone, table>>

MaxResultsParams == {Absent} \cup {Given(n) : n \in MaxResultsInputs}

\* GET /list without a token: a full pass begins.
ListFirst(mr) ==
    /\ steps < MaxSteps
    /\ LET req == [sync_token |-> NoParam, next_page_token |-> NoParam, max_results |-> mr]
       IN \E out \in listHandler(req, now, zone, table) :
             /\ Exchange("first", req, out)
             /\ Follow([kind |-> "full", m |-> mr, t0 |-> now, after |-> 0,
                        start |-> Ids(Current(table, now)), lens |-> << >>, writes |-> {}],
                       << >>, out, sc.told)
    /\ Listed

\* GET /list?next_page_token=..., the token of the pass's last response,
\* with the pass's max_results.
ListNext ==
    /\ steps < MaxSteps
    /\ sc.phase = "open"
    /\ LET req == [sync_token |-> NoParam, next_page_token |-> sc.next,
                   max_results |-> sc.pass.m]
       IN \E out \in listHandler(req, now, zone, table) :
             /\ Exchange("next", req, out)
             /\ Follow(sc.pass, sc.pages, out, [req |-> req, out |-> out])
    /\ Listed

\* GET /list?sync_token=..., the sync token held: an incremental pass begins.
ListResume(mr) ==
    /\ steps < MaxSteps
    /\ sy.tok # NullWire
    /\ LET req == [sync_token |-> sy.tok, next_page_token |-> NoParam, max_results |-> mr]
       IN \E out \in listHandler(req, now, zone, table) :
             /\ Exchange("resume", req, out)
             /\ Follow([kind |-> "incr", m |-> mr, t0 |-> now, after |-> sy.tok.t,
                        start |-> Ids(Current(table, now)), lens |-> << >>, writes |-> {}],
                       << >>, out, sc.told)
    /\ Listed

\* Any other request a caller can put together from the tokens it holds:
\* a token replayed with another max_results, quoted as it stands in the
\* body, with a key removed, text that is no token at all, both parameters
\* at once, no token and an unusual max_results, and the last next-page
\* request made once more.
Quote(w) == [w EXCEPT !.q = TRUE]
Drop(w, k) == [w EXCEPT !.has = @ \ {k}, ![k] = 0]
\* The token with its valid_until moved back by two days: the codec
\* carries no signature, any holder can write one.
Expire(w) == [w EXCEPT !.v = @ - 2 * RetentionSeconds]
Variants(w) ==
    IF w = NullWire THEN {}
    ELSE {w, Quote(w), Expire(w)} \cup {Drop(w, k) : k \in w.has}
Garbage == {BadBase64, BadJSON}
Request(s, n, mr) == [sync_token |-> s, next_page_token |-> n, max_results |-> mr]

OtherRequests ==
    {Request(NoParam, NoParam, mr) : mr \in MaxResultsParams \ {Given(m) : m \in PageSizes}}
    \cup {Request(s, NoParam, Absent) : s \in Variants(sy.tok) \cup Garbage}
    \cup {Request(s, NoParam, mr) : s \in {sy.tok} \ {NullWire}, mr \in MaxResultsParams}
    \cup {Request(NoParam, n, sc.pass.m) : n \in Variants(sc.next) \cup Garbage}
    \cup {Request(NoParam, n, mr) : n \in {sc.next} \ {NullWire}, mr \in MaxResultsParams}
    \cup {Request(s, n, Given(1)) :
             s \in (({sy.tok} \cup {Expire(sy.tok)}) \ {NullWire, Expire(NullWire)}) \cup {BadBase64},
             n \in (({sc.next} \cup {Expire(sc.next)}) \ {NullWire, Expire(NullWire)}) \cup {BadBase64}}
    \cup ({sc.told.req} \ {NoRequest})

\* The handler keeps nothing between requests, so such a request changes
\* only what has just been answered; one made right after another gets
\* the answer it would have got in its place.
ListOther(req) ==
    /\ steps < MaxSteps
    /\ resp.role # "other"
    /\ \E out \in listHandler(req, now, zone, table) : Exchange("other", req, out)
    /\ UNCHANGED <<now, zone, table, sc, sy, steps>>

Next ==
    \/ \E body \in Bodies : insertHandler(body)
    \/ \E id \in 1..MaxRows : UpdateRow(id)
    \/ clearHandler
    \/ \E d \in Jumps : Advance(d)
    \/ \E m \in PageSizes : ListFirst(Given(m))
    \/ ListNext
    \/ \E m \in PageSizes : ListResume(Given(m))
    \/ \E req \in OtherRequests : ListOther(req)

Spec == Init /\ [][Next]_vars

\* ================================================================ claims
HasToken(w) == w # NullWire
Answered == resp.role # "none"
\* The token the handler goes by: sync_token when given, else next_page_token.
Governing(req) == IF req.sync_token # NoParam THEN req.sync_token ELSE req.next_page_token
\* A client error with nothing in it, and no statement sent to the table.
Rejected(out) ==
    /\ out.status = 400
    /\ out.users = << >>
    /\ ~HasToken(out.next_page_token)
    /\ ~HasToken(out.sync_token)
    /\ ~out.read
\* The text is base64 (unquoted) of a JSON object of the token's shape.
ValidlyEncoded(w) == ~w.q /\ w.enc = "ok"
\* The text carries a valid_until that lies before the instant t.
PastValidUntil(w, t) == w.enc = "ok" /\ "v" \in w.has /\ w.v * TicksPerSec < t

\* C1: every 200 response of /list carries exactly one of next_page_token
\* and sync_token, whatever tokens and max_results the request gave.
C1_ExactlyOneContinuation ==
    (Answered /\ resp.out.status = 200) =>
        (HasToken(resp.out.next_page_token) # HasToken(resp.out.sync_token))

\* A request that presented a next-page token was answered 200 with a sync
\* token: the decoded input token had to be dropped from the response.
C1_Witness ==
    /\ resp.role = "next"
    /\ resp.out.status = 200
    /\ HasToken(resp.out.sync_token)
    /\ ~HasToken(resp.out.next_page_token)

\* C5 as stated: a request presenting any token, sync or next-page, whose
\* valid_until is past is rejected with nothing read.
C5_AnyExpiredTokenRejected ==
    (Answered /\ (PastValidUntil(resp.req.sync_token, resp.at)
                  \/ PastValidUntil(resp.req.next_page_token, resp.at)))
        => Rejected(resp.out)

\* C5 (amended): a request whose governing token (the sync token, or the
\* next-page token when no sync_token is given) has a valid_until in the
\* past is rejected with a client error, no records, no continuation and
\* no read, whatever its other fields.
C5_ExpiredGoverningTokenRejected ==
    (Answered /\ PastValidUntil(Governing(resp.req), resp.at)) => Rejected(resp.out)

\* An unquoted, well-formed token with every key, valid_until past, was
\* presented alone and turned away as expired.
C5_Witness ==
    /\ Answered
    /\ ValidlyEncoded(Governing(resp.req))
    /\ {"t", "v"} \subseteq Governing(resp.req).has
    /\ PastValidUntil(Governing(resp.req), resp.at)
    /\ resp.out.status = 400
    /\ resp.out.msg = "expired"

\* C8 as stated: a request whose sync_token or next_page_token is not
\* validly encoded is rejected with nothing read.
C8_AnyMalformedTokenRejected ==
    (Answered /\ \E w \in {resp.req.sync_token, resp.req.next_page_token} :
                    w # NoParam /\ ~ValidlyEncoded(w))
        => Rejected(resp.out)

\* C8 (amended): a request whose governing token is not validly encoded is
\* rejected with a client error, no records, no continuation and no read.
C8_MalformedGoverningTokenRejected ==
    (Answered /\ Governing(resp.req) # NoParam /\ ~ValidlyEncoded(Governing(resp.req)))
        => Rejected(resp.out)

\* A token in its quotes, as it stands in the response body, was presented
\* and turned away by the decoder.
C8_Witness ==
    /\ Answered
    /\ Governing(resp.req).q
    /\ Governing(resp.req).enc = "ok"
    /\ resp.out.status = 400
    /\ resp.out.msg = "decode"

\* The offset a request starts from: the o of the next-page token it is
\* decided by, 0 otherwise.
RequestOffset(req) ==
    IF req.sync_token = NoParam /\ req.next_page_token # NoParam
    THEN Field(req.next_page_token, "o") ELSE 0

\* C9: a next-page token's offset is the offset of the token presented (0
\* when none was) plus the length of the page just returned, hence never
\* smaller; along a followed pass it is the number of records so far.
C9_OffsetAdvancesByPageLength ==
    (Answered /\ resp.out.status = 200 /\ HasToken(resp.out.next_page_token)) =>
        /\ resp.out.next_page_token.o = RequestOffset(resp.req) + Len(resp.out.users)
        /\ resp.out.next_page_token.o >= RequestOffset(resp.req)
        /\ resp.role \in {"first", "next", "resume"} =>
              resp.out.next_page_token.o = Len(sc.pages)

\* The second next-page token of a pass: it was issued on a request that
\* itself started from a positive offset.
C9_Witness ==
    /\ resp.role = "next"
    /\ resp.out.status = 200
    /\ HasToken(resp.out.next_page_token)
    /\ RequestOffset(resp.req) > 0
    /\ Len(resp.out.users) > 0

\* How often id stands in the sequence of ids.
Occurrences(ids, id) == Cardinality({i \in 1..Len(ids) : ids[i] = id})

\* C2: a pass begun without a token and followed token by token to its
\* sync token has returned every row that existed when it began exactly
\* once, whatever was written meanwhile.
C2_PassCoversStartRowsOnce ==
    (sc.phase = "done" /\ sc.pass.kind = "full") =>
        \A id \in sc.pass.start : Occurrences(sc.pages, id) = 1

\* The table as it would stand had nothing been written after tick t0.
TableAt(tbl, t0) ==
    {[v EXCEPT !.row_end = IF @ > t0 THEN Forever ELSE @] : v \in {w \in tbl : w.row_start <= t0}}

\* C3: when rows are only inserted after a pass's first request, every
\* next-page response of the pass is one the same request would have got
\* had nothing been written since that first request.
C3_InsertsLeaveChainPagesUnchanged ==
    (resp.role = "next" /\ sc.pass.writes \subseteq {"insert"}) =>
        resp.out \in listHandler(resp.req, resp.at, zone, TableAt(table, sc.pass.t0))

\* C4: a list call with a sync token, after exactly one record was updated
\* once (and nothing else written) since the token was issued, returns
\* exactly that record.
C4_SyncReturnsTheUpdatedRecord ==
    (resp.role = "resume" /\ resp.out.status = 200
       /\ resp.sy0.n = 1 /\ resp.sy0.kinds = {"update"}) =>
        \E id \in resp.sy0.ids : PageIds(resp.out.users) = <<id>>

\* C6: for every token the handler builds, UnmarshalJSON of its
\* MarshalJSON succeeds and gives the token back.
C6_RoundTrip ==
    /\ (Answered /\ ~resp.out.npt.nil) =>
          NextPageToken_UnmarshalJSON(NextPageToken_MarshalJSON(resp.out.npt))
              = [err |-> FALSE, tok |-> resp.out.npt]
    /\ (Answered /\ ~resp.out.st.nil) =>
          SyncToken_UnmarshalJSON(SyncToken_MarshalJSON(resp.out.st))
              = [err |-> FALSE, tok |-> resp.out.st]

\* The keys a token must carry: t and v, and o for a next-page token.
RequiredKeys(req) == IF req.sync_token # NoParam THEN {"t", "v"} ELSE {"t", "o", "v"}

\* C7: a token that decodes to an object lacking a required key is refused
\* by the decoder; no read is planned from a value filled in for it.
C7_MissingFieldRefused ==
    (Answered /\ ValidlyEncoded(Governing(resp.req))
       /\ ~(RequiredKeys(resp.req) \subseteq Governing(resp.req).has)) =>
        (resp.out.status = 400 /\ resp.out.msg = "decode" /\ ~resp.out.read)

\* C10: with max_results = m and exactly m rows, and nothing written after
\* the first request: the token-less request returns m records and a
\* next-page token; the request with that token returns no record and a
\* sync token; the request with that sync token returns no record and a
\* sync token whose timestamp is later than that of the one presented.
ExactlyFull(pass) == pass.kind = "full" /\ Cardinality(pass.start) = pass.m.n /\ pass.writes = {}

C10_SyncThenResume ==
    /\ (resp.role = "first" /\ ExactlyFull(sc.pass)) =>
          /\ resp.out.status = 200
          /\ Len(resp.out.users) = sc.pass.m.n
          /\ HasToken(resp.out.next_page_token)
    /\ (resp.role = "next" /\ resp.out.status = 200 /\ ExactlyFull(sc.pass)
          /\ Len(sc.pass.lens) = 2) =>
          /\ resp.out.users = << >>
          /\ HasToken(resp.out.sync_token)
    /\ (resp.role = "resume" /\ resp.out.status = 200 /\ ExactlyFull(resp.sy0.from)
          /\ resp.sy0.from.lens = <<resp.sy0.from.m.n, 0>> /\ resp.sy0.n = 0) =>
          /\ resp.out.users = << >>
          /\ HasToken(resp.out.sync_token)
          /\ resp.out.sync_token.t > resp.req.sync_token.t

\* C11: in every 200 response a next-page token is issued exactly when the
\* page holds max_results records, and a sync token exactly when it holds
\* fewer; for every max_results a caller can give, 0 included.
C11_ContinuationDecisionRule ==
    (Answered /\ resp.out.status = 200) =>
        /\ HasToken(resp.out.next_page_token) <=> (Len(resp.out.users) = MaxResultsOf(resp.req))
        /\ HasToken(resp.out.sync_token) <=> (Len(resp.out.users) < MaxResultsOf(resp.req))

\* The text carries a valid_until that the instant t has not passed.
NotPastValidUntil(w, t) == "v" \in w.has /\ w.v * TicksPerSec >= t

\* C12: a request with both sync_token and next_page_token is answered as
\* the same request without next_page_token: the next-page token is not
\* decoded, a malformed or expired one does not fail the request; with a
\* good sync token the read is of a fresh snapshot, from offset 0, with
\* updated_after the sync token's timestamp.
C12_SyncTokenDecides ==
    (Answered /\ resp.req.sync_token # NoParam /\ resp.req.next_page_token # NoParam) =>
        /\ resp.out \in listHandler([resp.req EXCEPT !.next_page_token = NoParam],
                                    resp.at, zone, table)
        /\ (ValidlyEncoded(resp.req.sync_token) /\ NotPastValidUntil(resp.req.sync_token, resp.at)) =>
              /\ resp.out.status = 200
              /\ resp.out.asof = CurrentTimestamp(resp.at)
              /\ HasToken(resp.out.next_page_token) =>
                    /\ resp.out.next_page_token.o = Len(resp.out.users)
                    /\ "u" \in resp.out.next_page_token.has
                    /\ resp.out.next_page_token.u = Field(resp.req.sync_token, "t")
                    /\ resp.out.next_page_token.t = CurrentTimestamp(resp.at)

\* A good sync token came with a next_page_token that is no token at all or
\* is expired, and the answer was a page of the incremental pass with a
\* next-page token.
C12_Witness ==
    /\ Answered
    /\ ValidlyEncoded(resp.req.sync_token)
    /\ \/ resp.req.next_page_token = BadBase64
       \/ PastValidUntil(resp.req.next_page_token, resp.at)
    /\ resp.out.status = 200
    /\ Len(resp.out.users) > 0
    /\ HasToken(resp.out.next_page_token)

FirstAsOf(pass) == Format(UTC(TimeNow(pass.t0)), zone)

\* C14: every request that follows a pass's next-page tokens reads the
\* table as of the same point in time as the first request of the pass.
C14_SameInstantAlongChain ==
    (resp.role = "next" /\ resp.out.read) => resp.out.asof = FirstAsOf(sc.pass)

\* The rows of the pass's snapshot that match its filter: the table as of
\* the point in time of the pass's first request (versioning keeps every
\* row version), updated after the sync token's timestamp if it began from one.
MatchingRows(pass) ==
    Selected(table, FirstAsOf(pass),
             IF pass.kind = "incr" THEN TimeUnix(pass.after) ELSE ZeroTime)

\* C15: with N matching rows in the snapshot and a constant max_results
\* m >= 1, a followed pass gives floor(N/m) responses with a next-page
\* token and then one with a sync token; when m divides N that last
\* response has no record.
C15_PassTermination ==
    (sc.phase \in {"open", "done"} /\ sc.pass.m.n >= 1) =>
        LET N == Cardinality(MatchingRows(sc.pass))
            m == sc.pass.m.n
        IN /\ sc.phase = "open" => Len(sc.pass.lens) <= N \div m
           /\ sc.phase = "done" =>
                 /\ Len(sc.pass.lens) = (N \div m) + 1
                 /\ (N % m = 0) => sc.pass.lens[Len(sc.pass.lens)] = 0

\* C16: every token issued carries a valid_until of its instant of issue
\* plus 24 hours (at the token's whole-second precision), and a request
\* whose token is acted on comes no later than that token's valid_until.
C16_ValidUntilIsIssuancePlusWindow ==
    /\ (Answered /\ resp.out.status = 200) =>
          /\ HasToken(resp.out.next_page_token) =>
                resp.out.next_page_token.v = CurrentTimestamp(resp.at) + RetentionSeconds
          /\ HasToken(resp.out.sync_token) =>
                resp.out.sync_token.v = CurrentTimestamp(resp.at) + RetentionSeconds
    /\ (Answered /\ Governing(resp.req) # NoParam /\ resp.out.read) =>
          Field(Governing(resp.req), "v") * TicksPerSec >= resp.at

\* C17: a read made for a next-page token as the list operation issued it
\* targets a snapshot time that is, at the instant of the read, no older
\* than the 24-hour retention window.
C17_ReadWithinRetention ==
    (resp.role = "next" /\ resp.out.read) =>
        resp.at - resp.req.next_page_token.t * TicksPerSec <= RetentionSeconds * TicksPerSec

\* The updated_after a request reads with: the sync token's timestamp, the
\* u of the next-page token it is decided by, none otherwise.
RequestUpdatedAfter(req) ==
    IF req.sync_token # NoParam THEN TimeUnix(Field(req.sync_token, "t"))
    ELSE IF req.next_page_token # NoParam /\ "u" \in req.next_page_token.has
    THEN TimeUnix(req.next_page_token.u)
    ELSE ZeroTime

\* C18: when a 200 response carries a sync token, the snapshot the request
\* read has no matching row at or beyond the request's offset plus the
\* number of records returned, whatever max_results was given.
C18_SyncOnlyWhenComplete ==
    (Answered /\ resp.out.status = 200 /\ HasToken(resp.out.sync_token)) =>
        Cardinality(Selected(table, resp.out.asof, RequestUpdatedAfter(resp.req)))
            <= RequestOffset(resp.req) + Len(resp.out.users)

\* The token without its valid_until.
Cursor(w) == [w EXCEPT !.v = 0]

\* C19: a next-page token presented once more with the same max_results,
\* while it has not expired, is answered with the same records in the same
\* order and a continuation of the same kind with the same t, u and o,
\* whatever was written and requested in between.
C19_ReplayGivesTheSameAnswer ==
    (resp.role = "other" /\ sc.told.req # NoRequest /\ resp.req = sc.told.req
       /\ sc.told.out.status = 200 /\ resp.out.status = 200) =>
        /\ resp.out.users = sc.told.out.users
        /\ Cursor(resp.out.next_page_token) = Cursor(sc.told.out.next_page_token)
        /\ Cursor(resp.out.sync_token) = Cursor(sc.told.out.sync_token)

====
